---- MODULE Spec2Model ----
(***************************************************************************)
(* Model of the VotingApp smart contract (voting-app/src/voting_app.rs).   *)
(*                                                                         *)
(* Every endpoint is one atomic transaction.  For each endpoint there is   *)
(* an operator <endpoint>_err giving the message of the first require!     *)
(* that fails (OK when none does), in the order the code evaluates them,   *)
(* and an action that is enabled exactly when that operator yields OK and  *)
(* then performs the writes of the endpoint.  In every endpoint all the    *)
(* require! checks precede all the storage writes, so a failing call       *)
(* leaves the storage as it was: it is a stuttering step.                  *)
(***************************************************************************)
EXTENDS Integers, Sequences, FiniteSets, Bags, TLC

(***************************************************************************)
(* Bounds of the model.                                                    *)
(***************************************************************************)
MaxTime == 2
MaxElections == 1
MaxRegistry == 2
MaxProofLen == 2

(***************************************************************************)
(* Program constants.                                                      *)
(***************************************************************************)
HashLen == 32

(***************************************************************************)
(* Input values.                                                           *)
(***************************************************************************)
Deployer == "org"
Addrs == {"org", "v1"}
Names == {"", "E"}
Times == 0..MaxTime
Keys == {"K1"}
Ballots == {"b1", "b2"}
Nonces == {7}
Nullifiers == {"n1", "n2"}
CandidateLists == {<<"A", "B", "A">>}
VoterLists == {<<"v1">>, <<"v1", "v1">>}
PairLists == {<<<<"B", 2>>, <<"A", 1>>>>, <<<<"A", 0>>>>}

OK == "ok"
None == <<>>
Some(x) == <<x>>

RangeOf(s) == {s[i] : i \in 1..Len(s)}

(***************************************************************************)
(* ManagedAddress bytes: a 32-byte buffer per identity.                    *)
(***************************************************************************)
AddrBytes(a) == <<>> \o [i \in 1..HashLen |-> IF a = "org" THEN 1 ELSE IF a = "v1" THEN 2 ELSE 3]

(***************************************************************************)
(* keccak256 is supplied by the runtime; it is modelled by a fixed         *)
(* deterministic function from byte strings to 32-byte digests that        *)
(* depends on every byte and on the position of every byte.                *)
(***************************************************************************)
Absorb(buf) ==
    BagCardinality([i \in 1..Len(buf) |-> (buf[i] + 7) * (i * i + 3 * i + 1)]) % 65521

Squeeze(h) ==
    <<>> \o [i \in 1..HashLen |->
                (((h + 13 * i) % 251) * ((h + i * i + 1) % 241) + h \div 256) % 256]

keccak256(buf) == Squeeze(Absorb(buf) + Len(buf))

hash_address(addr) == keccak256(AddrBytes(addr))

(***************************************************************************)
(* verify_merkle_proof_leaf: the loop of the code, one proof element per   *)
(* iteration, current_buffer first and proof_element second.               *)
(***************************************************************************)
RECURSIVE verify_loop(_, _, _)
RECURSIVE verify_loop_swapped(_, _, _)
verify_loop_swapped(current_buffer, proof, i) ==
    IF i > Len(proof) THEN current_buffer
    ELSE LET combined == proof[i] \o current_buffer
         IN  verify_loop_swapped(keccak256(combined), proof, i + 1)

verify_loop(current_buffer, proof, i) ==
    IF i > Len(proof) THEN current_buffer
    ELSE LET combined == current_buffer \o proof[i]
         IN  verify_loop(keccak256(combined), proof, i + 1)

verify_merkle_proof_leaf(leaf, merkle_root, proof) ==
    verify_loop(leaf, proof, 1) = merkle_root

verify_merkle_proof(voter, merkle_root, proof) ==
    verify_merkle_proof_leaf(hash_address(voter), merkle_root, proof)

(***************************************************************************)
(* Merkle inputs: a two-leaf tree over h(v1), h(org) whose path for v1 is  *)
(* <<h(org)>>, a tampered sibling, and a root of the wrong length.         *)
(***************************************************************************)
LeafV1 == hash_address("v1")
LeafOrg == hash_address("org")
Tampered == [LeafOrg EXCEPT ![1] = (@ + 1) % 256]
ShortBuf == <<1, 2, 3>>
TreeRoot == keccak256(LeafV1 \o LeafOrg)
Siblings == {LeafOrg, Tampered}
RootInputs == {TreeRoot, ShortBuf}
ProofInputs == {<<>>, <<LeafOrg>>, <<Tampered>>}

(***************************************************************************)
(* SetMapper: an insertion-ordered collection without duplicates.          *)
(***************************************************************************)
SetContains(s, x) == \E i \in 1..Len(s) : s[i] = x

SetInsert(s, x) == IF SetContains(s, x) THEN s ELSE Append(s, x)

RECURSIVE SetInsertAll(_, _)
SetInsertAll(s, xs) ==
    IF xs = <<>> THEN s ELSE SetInsertAll(SetInsert(s, Head(xs)), Tail(xs))

VARIABLES
    now,                \* blockchain().get_block_timestamp()
    organizer,
    last_election_id,
    election_info,
    final_candidates,
    final_counts,
    candidates,
    eligible_voters,
    has_voted,
    encrypted_votes,
    used_nonces,
    used_nullifiers,
    cast,               \* history: successful ballot-admitting calls per (election, caller)
    forced,             \* history: the elections on which forceEndElection succeeded
    view                \* the standalone verifyMerkleProof query: its arguments and result

storage == <<organizer, last_election_id, election_info, final_candidates, final_counts,
             candidates, eligible_voters, has_voted, encrypted_votes, used_nonces,
             used_nullifiers>>

vars == <<now, organizer, last_election_id, election_info, final_candidates, final_counts,
          candidates, eligible_voters, has_voted, encrypted_votes, used_nonces,
          used_nullifiers, cast, forced, view>>

ElectionIds == 1..MaxRegistry
IdInputs == 0..MaxRegistry

NoView == [called |-> FALSE, voter |-> "", root |-> <<>>, proof |-> <<>>, result |-> FALSE]

init(caller) ==
    /\ organizer = caller
    /\ last_election_id = 0
    /\ election_info = [id \in ElectionIds |-> None]
    /\ final_candidates = [id \in ElectionIds |-> <<>>]
    /\ final_counts = [id \in ElectionIds |-> <<>>]
    /\ candidates = [id \in ElectionIds |-> <<>>]
    /\ eligible_voters = [id \in ElectionIds |-> <<>>]
    /\ has_voted = [id \in ElectionIds |-> <<>>]
    /\ encrypted_votes = [id \in ElectionIds |-> <<>>]
    /\ used_nonces = [id \in ElectionIds |-> <<>>]
    /\ used_nullifiers = [id \in ElectionIds |-> <<>>]

Init ==
    /\ now = 0
    /\ init(Deployer)
    /\ cast = [id \in ElectionIds |-> [a \in Addrs |-> 0]]
    /\ forced = {}
    /\ view = NoView

is_empty(id) == id \notin ElectionIds \/ election_info[id] = None
info_of(id) == election_info[id][1]

E_ORGANIZER == "Only organizer can call this"
E_NAME == "Election name cannot be empty"
E_START_END == "Start time must be before end time"
E_ROOT_LEN == "Merkle root must be 32 bytes (keccak256)"
E_PAST == "Election start time cannot be in the past"
E_NO_ELECTION == "Election does not exist"
E_FINALIZED == "Election already finalized"
E_ENDED == "Election ended"
E_NOT_ENDED == "Election not yet ended"
E_ALREADY_ENDED == "Election already ended"
E_NOT_STARTED == "Election not started"
E_VOTE_FINALIZED == "Election finalized"
E_NO_KEY == "Election encryption keys not set"
E_NOT_ELIGIBLE == "Not eligible to vote"
E_ALREADY_VOTED == "Already voted"
E_NO_ROOT == "Election not configured for Merkle voting"
E_BAD_PROOF == "Invalid Merkle proof - not eligible"
E_NO_ENCRYPTION == "This election does not use encrypted voting"
E_NONCE == "Nonce already used - replay attack detected"
E_PUBLISHED == "Results already published"
E_ONGOING == "Election still ongoing"

require_organizer_any(caller) == TRUE

require_organizer(caller) == caller = organizer

(***************************************************************************)
(* upgrade: empty body.                                                    *)
(***************************************************************************)
upgrade == UNCHANGED vars

(***************************************************************************)
(* createElection                                                          *)
(***************************************************************************)
create_election_err_equal_times(caller, name, start_time, end_time) ==
    IF ~require_organizer(caller) THEN E_ORGANIZER
    ELSE IF name = "" THEN E_NAME
    ELSE IF ~(start_time <= end_time) THEN E_START_END
    ELSE IF ~(start_time >= now) THEN E_PAST
    ELSE OK

create_election_err(caller, name, start_time, end_time) ==
    IF ~require_organizer(caller) THEN E_ORGANIZER
    ELSE IF name = "" THEN E_NAME
    ELSE IF ~(start_time < end_time) THEN E_START_END
    ELSE IF ~(start_time >= now) THEN E_PAST
    ELSE OK

create_election_keeping_last_id(caller, name, start_time, end_time, encryption_public_key, cands) ==
    /\ create_election_err(caller, name, start_time, end_time) = OK
    /\ LET election_id == last_election_id + 1
       IN  /\ candidates' = [candidates EXCEPT ![election_id] = SetInsertAll(@, cands)]
           /\ election_info' = [election_info EXCEPT ![election_id] = Some(
                  [id |-> election_id,
                   name |-> name,
                   start_time |-> start_time,
                   end_time |-> end_time,
                   is_finalized |-> FALSE,
                   candidates |-> cands,
                   merkle_root |-> None,
                   encryption_public_key |-> encryption_public_key])]
    /\ UNCHANGED <<now, organizer, last_election_id, final_candidates, final_counts,
                   eligible_voters, has_voted, encrypted_votes, used_nonces, used_nullifiers,
                   cast, forced, view>>

create_election(caller, name, start_time, end_time, encryption_public_key, cands) ==
    /\ create_election_err(caller, name, start_time, end_time) = OK
    /\ LET election_id == last_election_id + 1
       IN  /\ last_election_id' = election_id
           /\ candidates' = [candidates EXCEPT ![election_id] = SetInsertAll(@, cands)]
           /\ election_info' = [election_info EXCEPT ![election_id] = Some(
                  [id |-> election_id,
                   name |-> name,
                   start_time |-> start_time,
                   end_time |-> end_time,
                   is_finalized |-> FALSE,
                   candidates |-> cands,
                   merkle_root |-> None,
                   encryption_public_key |-> encryption_public_key])]
    /\ UNCHANGED <<now, organizer, final_candidates, final_counts, eligible_voters,
                   has_voted, encrypted_votes, used_nonces, used_nullifiers, cast, forced, view>>

(***************************************************************************)
(* createElectionWithMerkle                                                *)
(***************************************************************************)
create_election_with_merkle_err(caller, name, start_time, end_time, merkle_root) ==
    IF ~require_organizer(caller) THEN E_ORGANIZER
    ELSE IF name = "" THEN E_NAME
    ELSE IF ~(start_time < end_time) THEN E_START_END
    ELSE IF ~(Len(merkle_root) = HashLen) THEN E_ROOT_LEN
    ELSE IF ~(start_time >= now) THEN E_PAST
    ELSE OK

create_election_with_merkle(caller, name, start_time, end_time, merkle_root, cands) ==
    /\ create_election_with_merkle_err(caller, name, start_time, end_time, merkle_root) = OK
    /\ LET election_id == last_election_id + 1
       IN  /\ last_election_id' = election_id
           /\ candidates' = [candidates EXCEPT ![election_id] = SetInsertAll(@, cands)]
           /\ election_info' = [election_info EXCEPT ![election_id] = Some(
                  [id |-> election_id,
                   name |-> name,
                   start_time |-> start_time,
                   end_time |-> end_time,
                   is_finalized |-> FALSE,
                   candidates |-> cands,
                   merkle_root |-> Some(merkle_root),
                   encryption_public_key |-> None])]
    /\ UNCHANGED <<now, organizer, final_candidates, final_counts, eligible_voters,
                   has_voted, encrypted_votes, used_nonces, used_nullifiers, cast, forced, view>>

(***************************************************************************)
(* setEncryptionPublicKey                                                  *)
(***************************************************************************)
set_encryption_public_key_err_no_finalized_check(caller, election_id) ==
    IF ~require_organizer(caller) THEN E_ORGANIZER
    ELSE IF is_empty(election_id) THEN E_NO_ELECTION
    ELSE OK

set_encryption_public_key_err(caller, election_id) ==
    IF ~require_organizer(caller) THEN E_ORGANIZER
    ELSE IF is_empty(election_id) THEN E_NO_ELECTION
    ELSE IF info_of(election_id).is_finalized THEN E_FINALIZED
    ELSE OK

set_encryption_public_key(caller, election_id, public_key) ==
    /\ set_encryption_public_key_err(caller, election_id) = OK
    /\ election_info' = [election_info EXCEPT ![election_id] = Some(
           [info_of(election_id) EXCEPT !.encryption_public_key = Some(public_key)])]
    /\ UNCHANGED <<now, organizer, last_election_id, final_candidates, final_counts,
                   candidates, eligible_voters, has_voted, encrypted_votes, used_nonces,
                   used_nullifiers, cast, forced, view>>

(***************************************************************************)
(* addVoters                                                               *)
(***************************************************************************)
add_voters_err(caller, election_id) ==
    IF ~require_organizer(caller) THEN E_ORGANIZER
    ELSE IF is_empty(election_id) THEN E_NO_ELECTION
    ELSE IF info_of(election_id).is_finalized THEN E_ENDED
    ELSE OK

add_voters(caller, election_id, voters) ==
    /\ add_voters_err(caller, election_id) = OK
    /\ eligible_voters' = [eligible_voters EXCEPT ![election_id] = SetInsertAll(@, voters)]
    /\ UNCHANGED <<now, organizer, last_election_id, election_info, final_candidates,
                   final_counts, candidates, has_voted, encrypted_votes, used_nonces,
                   used_nullifiers, cast, forced, view>>

(***************************************************************************)
(* endElection: checks only, no write.                                     *)
(***************************************************************************)
end_election_err(caller, election_id) ==
    IF ~require_organizer(caller) THEN E_ORGANIZER
    ELSE IF is_empty(election_id) THEN E_NO_ELECTION
    ELSE IF info_of(election_id).is_finalized THEN E_FINALIZED
    ELSE IF ~(now > info_of(election_id).end_time) THEN E_NOT_ENDED
    ELSE OK

end_election_finalizing(caller, election_id) ==
    /\ end_election_err(caller, election_id) = OK
    /\ election_info' = [election_info EXCEPT ![election_id] = Some(
           [info_of(election_id) EXCEPT !.is_finalized = TRUE])]
    /\ UNCHANGED <<now, organizer, last_election_id, final_candidates, final_counts,
                   candidates, eligible_voters, has_voted, encrypted_votes, used_nonces,
                   used_nullifiers, cast, forced, view>>

end_election(caller, election_id) ==
    /\ end_election_err(caller, election_id) = OK
    /\ UNCHANGED vars

(***************************************************************************)
(* forceEndElection                                                        *)
(***************************************************************************)
saturating_sub(a, b) == IF a >= b THEN a - b ELSE 0

force_end_election_err_no_time_check(caller, election_id) ==
    IF ~require_organizer(caller) THEN E_ORGANIZER
    ELSE IF is_empty(election_id) THEN E_NO_ELECTION
    ELSE IF info_of(election_id).is_finalized THEN E_FINALIZED
    ELSE OK

force_end_election_err(caller, election_id) ==
    IF ~require_organizer(caller) THEN E_ORGANIZER
    ELSE IF is_empty(election_id) THEN E_NO_ELECTION
    ELSE IF info_of(election_id).is_finalized THEN E_FINALIZED
    ELSE IF ~(now <= info_of(election_id).end_time) THEN E_ALREADY_ENDED
    ELSE OK

force_end_election_moving_start(caller, election_id) ==
    /\ force_end_election_err(caller, election_id) = OK
    /\ election_info' = [election_info EXCEPT ![election_id] = Some(
           [info_of(election_id) EXCEPT !.end_time = saturating_sub(now, 1),
                                        !.start_time = saturating_sub(now, 1)])]
    /\ forced' = forced \cup {election_id}
    /\ UNCHANGED <<now, organizer, last_election_id, final_candidates, final_counts,
                   candidates, eligible_voters, has_voted, encrypted_votes, used_nonces,
                   used_nullifiers, cast, view>>

force_end_election(caller, election_id) ==
    /\ force_end_election_err(caller, election_id) = OK
    /\ election_info' = [election_info EXCEPT ![election_id] = Some(
           [info_of(election_id) EXCEPT !.end_time = saturating_sub(now, 1)])]
    /\ forced' = forced \cup {election_id}
    /\ UNCHANGED <<now, organizer, last_election_id, final_candidates, final_counts,
                   candidates, eligible_voters, has_voted, encrypted_votes, used_nonces,
                   used_nullifiers, cast, view>>

(***************************************************************************)
(* vote                                                                    *)
(***************************************************************************)
vote_err_no_replay_check(caller, election_id) ==
    IF is_empty(election_id) THEN E_NO_ELECTION
    ELSE LET info == info_of(election_id)
         IN  IF ~(now >= info.start_time) THEN E_NOT_STARTED
             ELSE IF ~(now <= info.end_time) THEN E_ENDED
             ELSE IF info.is_finalized THEN E_VOTE_FINALIZED
             ELSE IF info.encryption_public_key = None THEN E_NO_KEY
             ELSE IF ~SetContains(eligible_voters[election_id], caller) THEN E_NOT_ELIGIBLE
             ELSE OK

vote_err(caller, election_id) ==
    IF is_empty(election_id) THEN E_NO_ELECTION
    ELSE LET info == info_of(election_id)
         IN  IF ~(now >= info.start_time) THEN E_NOT_STARTED
             ELSE IF ~(now <= info.end_time) THEN E_ENDED
             ELSE IF info.is_finalized THEN E_VOTE_FINALIZED
             ELSE IF info.encryption_public_key = None THEN E_NO_KEY
             ELSE IF ~SetContains(eligible_voters[election_id], caller) THEN E_NOT_ELIGIBLE
             ELSE IF SetContains(has_voted[election_id], caller) THEN E_ALREADY_VOTED
             ELSE OK

vote_not_marking_caller(caller, election_id, encrypted_ballot) ==
    /\ vote_err(caller, election_id) = OK
    /\ encrypted_votes' = [encrypted_votes EXCEPT ![election_id] = SetInsert(@, encrypted_ballot)]
    /\ cast' = [cast EXCEPT ![election_id][caller] = @ + 1]
    /\ UNCHANGED <<now, organizer, last_election_id, election_info, final_candidates,
                   final_counts, candidates, eligible_voters, has_voted, used_nonces,
                   used_nullifiers, forced, view>>

vote(caller, election_id, encrypted_ballot) ==
    /\ vote_err(caller, election_id) = OK
    /\ encrypted_votes' = [encrypted_votes EXCEPT ![election_id] = SetInsert(@, encrypted_ballot)]
    /\ has_voted' = [has_voted EXCEPT ![election_id] = SetInsert(@, caller)]
    /\ cast' = [cast EXCEPT ![election_id][caller] = @ + 1]
    /\ UNCHANGED <<now, organizer, last_election_id, election_info, final_candidates,
                   final_counts, candidates, eligible_voters, used_nonces, used_nullifiers,
                   forced, view>>

(***************************************************************************)
(* voteWithMerkle                                                          *)
(***************************************************************************)
vote_with_merkle_err_no_proof_check(caller, election_id, nullifier, merkle_proof) ==
    IF is_empty(election_id) THEN E_NO_ELECTION
    ELSE LET info == info_of(election_id)
         IN  IF ~(now >= info.start_time) THEN E_NOT_STARTED
             ELSE IF ~(now <= info.end_time) THEN E_ENDED
             ELSE IF info.is_finalized THEN E_VOTE_FINALIZED
             ELSE IF info.encryption_public_key = None THEN E_NO_KEY
             ELSE IF info.merkle_root = None THEN E_NO_ROOT
             ELSE IF SetContains(used_nullifiers[election_id], nullifier) THEN E_ALREADY_VOTED
             ELSE OK

vote_with_merkle_err(caller, election_id, nullifier, merkle_proof) ==
    IF is_empty(election_id) THEN E_NO_ELECTION
    ELSE LET info == info_of(election_id)
         IN  IF ~(now >= info.start_time) THEN E_NOT_STARTED
             ELSE IF ~(now <= info.end_time) THEN E_ENDED
             ELSE IF info.is_finalized THEN E_VOTE_FINALIZED
             ELSE IF info.encryption_public_key = None THEN E_NO_KEY
             ELSE IF info.merkle_root = None THEN E_NO_ROOT
             ELSE IF SetContains(used_nullifiers[election_id], nullifier) THEN E_ALREADY_VOTED
             ELSE IF ~verify_merkle_proof_leaf(hash_address(caller), info.merkle_root[1],
                                               merkle_proof)
                  THEN E_BAD_PROOF
             ELSE OK

vote_with_merkle(caller, election_id, nullifier, encrypted_ballot, merkle_proof) ==
    /\ vote_with_merkle_err(caller, election_id, nullifier, merkle_proof) = OK
    /\ used_nullifiers' = [used_nullifiers EXCEPT ![election_id] = SetInsert(@, nullifier)]
    /\ encrypted_votes' = [encrypted_votes EXCEPT ![election_id] = SetInsert(@, encrypted_ballot)]
    /\ cast' = [cast EXCEPT ![election_id][caller] = @ + 1]
    /\ UNCHANGED <<now, organizer, last_election_id, election_info, final_candidates,
                   final_counts, candidates, eligible_voters, has_voted, used_nonces, forced,
                   view>>

(***************************************************************************)
(* voteEncrypted                                                           *)
(***************************************************************************)
vote_encrypted_err_no_end_check(caller, election_id, nonce) ==
    IF is_empty(election_id) THEN E_NO_ELECTION
    ELSE LET info == info_of(election_id)
         IN  IF ~(now >= info.start_time) THEN E_NOT_STARTED
             ELSE IF info.is_finalized THEN E_VOTE_FINALIZED
             ELSE IF info.encryption_public_key = None THEN E_NO_ENCRYPTION
             ELSE IF SetContains(used_nonces[election_id], nonce) THEN E_NONCE
             ELSE OK

vote_encrypted_err(caller, election_id, nonce) ==
    IF is_empty(election_id) THEN E_NO_ELECTION
    ELSE LET info == info_of(election_id)
         IN  IF ~(now >= info.start_time) THEN E_NOT_STARTED
             ELSE IF ~(now <= info.end_time) THEN E_ENDED
             ELSE IF info.is_finalized THEN E_VOTE_FINALIZED
             ELSE IF info.encryption_public_key = None THEN E_NO_ENCRYPTION
             ELSE IF SetContains(used_nonces[election_id], nonce) THEN E_NONCE
             ELSE OK

vote_encrypted(caller, election_id, encrypted_vote, nonce) ==
    /\ vote_encrypted_err(caller, election_id, nonce) = OK
    /\ used_nonces' = [used_nonces EXCEPT ![election_id] = SetInsert(@, nonce)]
    /\ encrypted_votes' = [encrypted_votes EXCEPT ![election_id] = SetInsert(@, encrypted_vote)]
    /\ cast' = [cast EXCEPT ![election_id][caller] = @ + 1]
    /\ UNCHANGED <<now, organizer, last_election_id, election_info, final_candidates,
                   final_counts, candidates, eligible_voters, has_voted, used_nullifiers,
                   forced, view>>

(***************************************************************************)
(* publishResults                                                          *)
(***************************************************************************)
publish_results_err_no_time_check(caller, election_id) ==
    IF ~require_organizer(caller) THEN E_ORGANIZER
    ELSE IF is_empty(election_id) THEN E_NO_ELECTION
    ELSE IF info_of(election_id).is_finalized THEN E_PUBLISHED
    ELSE OK

publish_results_err(caller, election_id) ==
    IF ~require_organizer(caller) THEN E_ORGANIZER
    ELSE IF is_empty(election_id) THEN E_NO_ELECTION
    ELSE IF info_of(election_id).is_finalized THEN E_PUBLISHED
    ELSE IF ~(now > info_of(election_id).end_time) THEN E_ONGOING
    ELSE OK

publish_results_not_finalizing(caller, election_id, candidate_counts) ==
    /\ publish_results_err(caller, election_id) = OK
    /\ now < MaxTime
    /\ LET candidates_vec == [i \in 1..Len(candidate_counts) |-> candidate_counts[i][1]]
           counts_vec == [i \in 1..Len(candidate_counts) |-> candidate_counts[i][2]]
       IN  /\ final_candidates' = [final_candidates EXCEPT ![election_id] = candidates_vec]
           /\ final_counts' = [final_counts EXCEPT ![election_id] = counts_vec]
    /\ UNCHANGED <<now, organizer, last_election_id, election_info, candidates,
                   eligible_voters, has_voted, encrypted_votes, used_nonces,
                   used_nullifiers, cast, forced, view>>

publish_results(caller, election_id, candidate_counts) ==
    /\ publish_results_err(caller, election_id) = OK
    /\ LET candidates_vec == [i \in 1..Len(candidate_counts) |-> candidate_counts[i][1]]
           counts_vec == [i \in 1..Len(candidate_counts) |-> candidate_counts[i][2]]
       IN  /\ final_candidates' = [final_candidates EXCEPT ![election_id] = candidates_vec]
           /\ final_counts' = [final_counts EXCEPT ![election_id] = counts_vec]
    /\ election_info' = [election_info EXCEPT ![election_id] = Some(
           [info_of(election_id) EXCEPT !.is_finalized = TRUE])]
    /\ UNCHANGED <<now, organizer, last_election_id, candidates, eligible_voters, has_voted,
                   encrypted_votes, used_nonces, used_nullifiers, cast, forced, view>>

(***************************************************************************)
(* Views.                                                                  *)
(***************************************************************************)
get_election_results_reversed(election_id) ==
    IF info_of(election_id).is_finalized
    THEN LET cands == final_candidates[election_id]
             counts == final_counts[election_id]
             len == Len(cands)
         IN  [i \in 1..len |-> <<cands[len + 1 - i], counts[len + 1 - i]>>]
    ELSE [i \in 1..Len(candidates[election_id]) |-> <<candidates[election_id][i], 0>>]

get_election_results(election_id) ==
    IF info_of(election_id).is_finalized
    THEN LET cands == final_candidates[election_id]
             counts == final_counts[election_id]
         IN  [i \in 1..Len(cands) |-> <<cands[i], counts[i]>>]
    ELSE [i \in 1..Len(candidates[election_id]) |-> <<candidates[election_id][i], 0>>]

get_election_candidates(election_id) ==
    IF info_of(election_id).is_finalized
    THEN final_candidates[election_id]
    ELSE candidates[election_id]

get_encryption_public_key(election_id) == info_of(election_id).encryption_public_key

get_eligible_voters(election_id) == eligible_voters[election_id]

get_encrypted_votes(election_id) == encrypted_votes[election_id]

get_all_elections == [id \in 1..last_election_id |-> info_of(id)]

is_organizer(caller) == caller = organizer

(***************************************************************************)
(* The block timestamp never decreases.                                    *)
(***************************************************************************)
Tick ==
    /\ now < MaxTime
    /\ now' = now + 1
    /\ UNCHANGED <<organizer, last_election_id, election_info, final_candidates,
                   final_counts, candidates, eligible_voters, has_voted, encrypted_votes,
                   used_nonces, used_nullifiers, cast, forced, view>>

CreateElection ==
    \E caller \in Addrs, name \in Names, s \in Times, e \in Times,
       key \in {None} \cup {Some(k) : k \in Keys}, cands \in CandidateLists :
        /\ last_election_id < MaxElections
        /\ create_election(caller, name, s, e, key, cands)

CreateElectionWithMerkle ==
    \E caller \in Addrs, name \in Names, s \in Times, e \in Times,
       root \in RootInputs, cands \in CandidateLists :
        /\ last_election_id < MaxElections
        /\ create_election_with_merkle(caller, name, s, e, root, cands)

SetEncryptionPublicKey ==
    \E caller \in Addrs, id \in IdInputs, key \in Keys :
        set_encryption_public_key(caller, id, key)

AddVoters ==
    \E caller \in Addrs, id \in IdInputs, voters \in VoterLists :
        add_voters(caller, id, voters)

EndElection ==
    \E caller \in Addrs, id \in IdInputs : end_election(caller, id)

ForceEndElection ==
    \E caller \in Addrs, id \in IdInputs : force_end_election(caller, id)

Vote ==
    \E caller \in Addrs, id \in IdInputs, ballot \in Ballots : vote(caller, id, ballot)

VoteWithMerkle ==
    \E caller \in Addrs, id \in IdInputs, nullifier \in Nullifiers, ballot \in Ballots,
       proof \in ProofInputs :
        vote_with_merkle(caller, id, nullifier, ballot, proof)

VoteEncrypted ==
    \E caller \in Addrs, id \in IdInputs, ballot \in Ballots, nonce \in Nonces :
        vote_encrypted(caller, id, ballot, nonce)

PublishResults ==
    \E caller \in Addrs, id \in IdInputs, pairs \in PairLists :
        publish_results(caller, id, pairs)

Next ==
    \/ Tick
    \/ upgrade
    \/ CreateElection
    \/ CreateElectionWithMerkle
    \/ SetEncryptionPublicKey
    \/ AddVoters
    \/ EndElection
    \/ ForceEndElection
    \/ Vote
    \/ VoteWithMerkle
    \/ VoteEncrypted
    \/ PublishResults

Spec == Init /\ [][Next]_vars

(***************************************************************************)
(* The registry of elections: both creation endpoints up to MaxRegistry    *)
(* elections, interleaved with every other endpoint; the vote endpoints    *)
(* are called with one ballot, one nullifier and the valid proof, and      *)
(* voteEncrypted by one caller.                                            *)
(***************************************************************************)
RegistryCreateElection ==
    \E caller \in Addrs, name \in Names, s \in Times, e \in Times, cands \in CandidateLists :
        /\ last_election_id < MaxRegistry
        /\ create_election(caller, name, s, e, Some("K1"), cands)

RegistryCreateElectionWithMerkle ==
    \E caller \in Addrs, name \in Names, s \in Times, e \in Times,
       root \in RootInputs, cands \in CandidateLists :
        /\ last_election_id < MaxRegistry
        /\ create_election_with_merkle(caller, name, s, e, root, cands)

RegistryVote ==
    \E caller \in Addrs, id \in IdInputs : vote(caller, id, "b1")

RegistryVoteWithMerkle ==
    \E caller \in Addrs, id \in IdInputs : vote_with_merkle(caller, id, "n1", "b1", <<LeafOrg>>)

RegistryVoteEncrypted ==
    \E id \in IdInputs, nonce \in Nonces : vote_encrypted("v1", id, "b1", nonce)

NextRegistry ==
    \/ Tick
    \/ upgrade
    \/ RegistryCreateElection
    \/ RegistryCreateElectionWithMerkle
    \/ SetEncryptionPublicKey
    \/ AddVoters
    \/ EndElection
    \/ ForceEndElection
    \/ RegistryVote
    \/ RegistryVoteWithMerkle
    \/ RegistryVoteEncrypted
    \/ PublishResults

SpecRegistry == Init /\ [][NextRegistry]_vars

(***************************************************************************)
(* Auxiliary definitions of the properties.                                *)
(***************************************************************************)
exists_election(id) == ~is_empty(id)

NoDuplicates(s) == \A i, j \in 1..Len(s) : s[i] = s[j] => i = j

is_open(id) ==
    /\ info_of(id).start_time <= now
    /\ now <= info_of(id).end_time
    /\ ~info_of(id).is_finalized

SomeVoteAdmitted(id) ==
    \/ \E c \in Addrs : vote_err(c, id) = OK
    \/ \E c \in Addrs, n \in Nullifiers, p \in ProofInputs : vote_with_merkle_err(c, id, n, p) = OK
    \/ \E c \in Addrs, k \in Nonces : vote_encrypted_err(c, id, k) = OK

(***************************************************************************)
(* C1: for every election and every caller, at most one ballot-admitting   *)
(* call (vote, voteWithMerkle, voteEncrypted) made by that caller on that  *)
(* election succeeds.                                                      *)
(***************************************************************************)
C1_AtMostOneBallotPerCaller ==
    \A id \in ElectionIds, c \in Addrs : cast[id][c] <= 1

(***************************************************************************)
(* C2 as stated: once a caller is in HasVoted, a nullifier in              *)
(* UsedNullifiers or a nonce in UsedNonces, every later call with it fails *)
(* with the replay error, and the three sets hold no duplicate.            *)
(***************************************************************************)
C2_ReplayAlwaysReplayError ==
    \A id \in ElectionIds :
        /\ \A c \in RangeOf(has_voted[id]) : vote_err(c, id) = E_ALREADY_VOTED
        /\ \A n \in RangeOf(used_nullifiers[id]), c \in Addrs, p \in ProofInputs :
               vote_with_merkle_err(c, id, n, p) = E_ALREADY_VOTED
        /\ \A k \in RangeOf(used_nonces[id]), c \in Addrs :
               vote_encrypted_err(c, id, k) = E_NONCE
        /\ NoDuplicates(has_voted[id])
        /\ NoDuplicates(used_nullifiers[id])
        /\ NoDuplicates(used_nonces[id])

C2_ReplayState ==
    \A id \in ElectionIds :
        /\ \A c \in RangeOf(has_voted[id]) :
               /\ vote_err(c, id) # OK
               /\ now <= info_of(id).end_time => vote_err(c, id) = E_ALREADY_VOTED
        /\ \A n \in RangeOf(used_nullifiers[id]), c \in Addrs, p \in ProofInputs :
               /\ vote_with_merkle_err(c, id, n, p) # OK
               /\ now <= info_of(id).end_time =>
                      vote_with_merkle_err(c, id, n, p) = E_ALREADY_VOTED
        /\ \A k \in RangeOf(used_nonces[id]), c \in Addrs :
               /\ vote_encrypted_err(c, id, k) # OK
               /\ now <= info_of(id).end_time => vote_encrypted_err(c, id, k) = E_NONCE
        /\ NoDuplicates(has_voted[id])
        /\ NoDuplicates(used_nullifiers[id])
        /\ NoDuplicates(used_nonces[id])

C2_ReplayStep ==
    \A id \in ElectionIds :
        encrypted_votes'[id] # encrypted_votes[id] =>
            Len(has_voted'[id]) + Len(used_nullifiers'[id]) + Len(used_nonces'[id])
                = Len(has_voted[id]) + Len(used_nullifiers[id]) + Len(used_nonces[id]) + 1

\* C2 (amended): a later call with a recorded caller, nullifier or nonce always
\* fails and adds no ballot; it fails with the replay error while now <= end_time
\* (after that with the election-ended error); the three sets hold no duplicate.
C2_ReplayGuard == []C2_ReplayState /\ [][C2_ReplayStep]_vars

C2_Witness ==
    \E id \in ElectionIds :
        /\ exists_election(id)
        /\ now <= info_of(id).end_time
        /\ Len(has_voted[id]) > 0
        /\ Len(used_nullifiers[id]) > 0
        /\ Len(used_nonces[id]) > 0

(***************************************************************************)
(* C3: a vote, voteWithMerkle or voteEncrypted call made at now <          *)
(* start_time or now > end_time fails, and HasVoted, UsedNullifiers,       *)
(* UsedNonces and the ballots change only in a state where start_time <=   *)
(* now <= end_time and is_finalized is false.                              *)
(***************************************************************************)
C3_OutsideWindowFails ==
    \A id \in ElectionIds :
        (exists_election(id) /\ (now < info_of(id).start_time \/ now > info_of(id).end_time))
            => ~SomeVoteAdmitted(id)

C3_BallotsOnlyWhileOpen ==
    \A id \in ElectionIds :
        (\/ has_voted'[id] # has_voted[id]
         \/ used_nullifiers'[id] # used_nullifiers[id]
         \/ used_nonces'[id] # used_nonces[id]
         \/ encrypted_votes'[id] # encrypted_votes[id])
            => exists_election(id) /\ is_open(id) /\ now' = now

\* C3: voting outside the window start_time <= now <= end_time fails, and ballots,
\* HasVoted, UsedNullifiers and UsedNonces change only while the election is open.
C3_VotingWindow == []C3_OutsideWindowFails /\ [][C3_BallotsOnlyWhileOpen]_vars

C3_Witness ==
    \E id \in ElectionIds :
        /\ exists_election(id)
        /\ now > info_of(id).end_time
        /\ ~info_of(id).is_finalized
        /\ info_of(id).encryption_public_key # None
        /\ Len(encrypted_votes[id]) > 0
        /\ Len(used_nonces[id]) = 0

(***************************************************************************)
(* C4: is_finalized starts false, changes only from false to true, and     *)
(* only through a successful publishResults call of the organizer at       *)
(* now > end_time.                                                         *)
(***************************************************************************)
C4_FinalizeStep ==
    \A id \in ElectionIds :
        /\ (is_empty(id) /\ election_info'[id] # None) => ~election_info'[id][1].is_finalized
        /\ exists_election(id) =>
               /\ election_info'[id] # None
               /\ info_of(id).is_finalized => election_info'[id][1].is_finalized
               /\ (~info_of(id).is_finalized /\ election_info'[id][1].is_finalized) =>
                      /\ now > info_of(id).end_time
                      /\ \E pairs \in PairLists : publish_results(organizer, id, pairs)

\* C4: is_finalized is a one-way flag set only by the organizer's publishResults
\* after end_time.
C4_FinalizedOneWay == [][C4_FinalizeStep]_vars

C4_Witness ==
    \E id \in ElectionIds : exists_election(id) /\ info_of(id).is_finalized

(***************************************************************************)
(* C5: createElection and createElectionWithMerkle with start_time >=      *)
(* end_time or start_time < now fail; an election record, candidate set    *)
(* or new last_election_id appears only for start_time < end_time and      *)
(* start_time >= now.                                                      *)
(***************************************************************************)
C5_BadTimingFails ==
    \A c \in Addrs, name \in Names, s \in Times, e \in Times :
        (s >= e \/ s < now) =>
            /\ create_election_err(c, name, s, e) # OK
            /\ \A root \in RootInputs : create_election_with_merkle_err(c, name, s, e, root) # OK

C5_CreationStep ==
    \A id \in ElectionIds :
        (\/ (is_empty(id) /\ election_info'[id] # None)
         \/ (is_empty(id) /\ candidates'[id] # candidates[id])
         \/ (id > last_election_id /\ last_election_id' >= id))
            => /\ election_info'[id] # None
               /\ election_info'[id][1].start_time < election_info'[id][1].end_time
               /\ election_info'[id][1].start_time >= now
               /\ now' = now

\* C5: a creation with start_time >= end_time or start_time < now fails and
\* persists nothing.
C5_CreationTiming == []C5_BadTimingFails /\ [][C5_CreationStep]_vars

C5_Witness ==
    /\ now > 0
    /\ \E id \in ElectionIds : exists_election(id) /\ info_of(id).start_time = now
    /\ \E c \in Addrs, name \in Names, e \in Times :
           create_election_err(c, name, now - 1, e) = E_PAST

(***************************************************************************)
(* C6: every organizer-gated operation called by an identity other than    *)
(* the organizer fails with the organizer error, and the organizer         *)
(* identity never changes.                                                 *)
(***************************************************************************)
C6_NonOrganizerRejected ==
    \A c \in Addrs \ {organizer} :
        /\ \A name \in Names, s \in Times, e \in Times :
               /\ create_election_err(c, name, s, e) = E_ORGANIZER
               /\ \A root \in RootInputs :
                      create_election_with_merkle_err(c, name, s, e, root) = E_ORGANIZER
        /\ \A id \in IdInputs :
               /\ set_encryption_public_key_err(c, id) = E_ORGANIZER
               /\ add_voters_err(c, id) = E_ORGANIZER
               /\ end_election_err(c, id) = E_ORGANIZER
               /\ force_end_election_err(c, id) = E_ORGANIZER
               /\ publish_results_err(c, id) = E_ORGANIZER

\* C6: organizer-gated operations reject every other caller, and the organizer
\* never changes.
C6_OrganizerOnly == []C6_NonOrganizerRejected /\ [][organizer' = organizer]_vars

C6_Witness ==
    \E id \in ElectionIds, c \in Addrs :
        /\ c # organizer
        /\ publish_results_err(organizer, id) = OK
        /\ publish_results_err(c, id) = E_ORGANIZER
        /\ Len(encrypted_votes[id]) > 0

(***************************************************************************)
(* C7: a successful publishResults(id, pairs) makes getElectionResults(id) *)
(* return exactly pairs, in the same order; from then on the result never  *)
(* changes and every further publishResults on the election fails.         *)
(***************************************************************************)
C7_TallyStep ==
    \A id \in ElectionIds :
        /\ \A c \in Addrs, pairs \in PairLists :
               publish_results(c, id, pairs) =>
                   get_election_results(id)' = pairs
        /\ (exists_election(id) /\ info_of(id).is_finalized) =>
               /\ get_election_results(id)' = get_election_results(id)
               /\ final_candidates'[id] = final_candidates[id]
               /\ final_counts'[id] = final_counts[id]
               /\ \A c \in Addrs : publish_results_err(c, id) # OK

\* C7: the final tally is the published list, verbatim, and never changes again.
C7_FinalTallyImmutable == [][C7_TallyStep]_vars

C7_Witness ==
    \E id \in ElectionIds :
        /\ exists_election(id)
        /\ info_of(id).is_finalized
        /\ get_election_results(id) \in PairLists
        /\ now = MaxTime

(***************************************************************************)
(* C8: while is_finalized is false no final tally is stored and            *)
(* getElectionResults returns every candidate of the election with count   *)
(* 0, whatever the number of ballots cast.                                 *)
(***************************************************************************)
C8_NoTallyBeforeFinalization ==
    \A id \in ElectionIds :
        (exists_election(id) /\ ~info_of(id).is_finalized) =>
            /\ final_candidates[id] = <<>>
            /\ final_counts[id] = <<>>
            /\ RangeOf(get_election_results(id))
                   = {<<cand, 0>> : cand \in RangeOf(info_of(id).candidates)}
            /\ Len(get_election_results(id)) = Cardinality(RangeOf(info_of(id).candidates))

C8_Witness ==
    \E id \in ElectionIds :
        /\ exists_election(id)
        /\ ~info_of(id).is_finalized
        /\ now > info_of(id).end_time
        /\ Len(encrypted_votes[id]) >= 2

(***************************************************************************)
(* The standalone verifyMerkleProof query.  view keeps the arguments and   *)
(* the result of the first query of a behaviour; the specification that    *)
(* exercises it lets the query meet several storage states.                *)
(***************************************************************************)
RECURSIVE ProofsUpTo(_)
ProofsUpTo(n) ==
    IF n = 0 THEN {<<>>}
    ELSE ProofsUpTo(n - 1) \cup
         {Append(p, x) : p \in {q \in ProofsUpTo(n - 1) : Len(q) = n - 1}, x \in Siblings}

(* The fold of the specification: current := hash(current || sibling),     *)
(* sibling by sibling, starting from the leaf.                             *)
RECURSIVE MerkleFold(_, _)
MerkleFold(current, proof) ==
    IF proof = <<>> THEN current
    ELSE MerkleFold(keccak256(current \o Head(proof)), Tail(proof))

MerkleProofs == ProofsUpTo(MaxProofLen)
MerkleRoots ==
    {MerkleFold(hash_address(a), p) : a \in Addrs, p \in MerkleProofs} \cup {ShortBuf}

VerifyMerkleProof ==
    \E voter \in Addrs, root \in MerkleRoots, proof \in MerkleProofs :
        /\ ~view.called
        /\ view' = [called |-> TRUE, voter |-> voter, root |-> root, proof |-> proof,
                    result |-> verify_merkle_proof(voter, root, proof)]
        /\ UNCHANGED <<now, organizer, last_election_id, election_info, final_candidates,
                       final_counts, candidates, eligible_voters, has_voted,
                       encrypted_votes, used_nonces, used_nullifiers, cast, forced>>

NextMerkle ==
    \/ VerifyMerkleProof
    \/ CreateElectionWithMerkle
    \/ Tick

SpecMerkle == Init /\ [][NextMerkle]_vars

(***************************************************************************)
(* C9: verify(leaf, root, proof) is true exactly when the fold of the      *)
(* proof from the leaf ends in the root; verifying against the root the    *)
(* fold computes is true; an empty proof is accepted only if leaf = root;  *)
(* the query changes no state.                                             *)
(***************************************************************************)
C9_VerifyResult ==
    view.called =>
        LET leaf == hash_address(view.voter)
        IN  /\ view.result = (MerkleFold(leaf, view.proof) = view.root)
            /\ view.root = MerkleFold(leaf, view.proof) => view.result = TRUE
            /\ view.proof = <<>> => (view.result = TRUE <=> leaf = view.root)

C9_VerifyStep ==
    view' # view => UNCHANGED <<storage, now, cast, forced>>

\* C9: the query returns exactly whether the fold of the proof from the leaf
\* equals the root, and changes no state.
C9_MerkleVerification == []C9_VerifyResult /\ [][C9_VerifyStep]_vars

C9_Witness ==
    /\ view.called
    /\ view.result = TRUE
    /\ Len(view.proof) = MaxProofLen
    /\ last_election_id > 0

(***************************************************************************)
(* C10: voteWithMerkle succeeds only if the election has a merkle_root and *)
(* the proof folds hash(caller) to that root; UsedNullifiers grows only in *)
(* such a call, so a rejected call leaves the nullifier usable.            *)
(***************************************************************************)
C10_ProofRequired ==
    \A id \in ElectionIds, c \in Addrs, n \in Nullifiers, p \in ProofInputs :
        vote_with_merkle_err(c, id, n, p) = OK =>
            /\ exists_election(id)
            /\ info_of(id).merkle_root # None
            /\ MerkleFold(hash_address(c), p) = info_of(id).merkle_root[1]

C10_NullifierStep ==
    \A id \in ElectionIds :
        used_nullifiers'[id] # used_nullifiers[id] =>
            /\ exists_election(id)
            /\ info_of(id).merkle_root # None
            /\ \E c \in Addrs, p \in ProofInputs :
                   /\ MerkleFold(hash_address(c), p) = info_of(id).merkle_root[1]
                   /\ \E n \in Nullifiers, b \in Ballots : vote_with_merkle(c, id, n, b, p)

\* C10: a Merkle vote is admitted only with a root and a proof that folds
\* hash(caller) to it.
C10_MerkleMembership == []C10_ProofRequired /\ [][C10_NullifierStep]_vars

C10_Witness ==
    \E id \in ElectionIds :
        /\ exists_election(id)
        /\ used_nullifiers[id] = <<"n1">>
        /\ vote_with_merkle_err("v1", id, "n2", <<Tampered>>) = E_BAD_PROOF
        /\ vote_with_merkle_err("v1", id, "n2", <<LeafOrg>>) = OK

(***************************************************************************)
(* Number of successful ballot-admitting calls on an election, all callers *)
(* together.                                                               *)
(***************************************************************************)
RECURSIVE SumCast(_, _)
SumCast(id, callers) ==
    IF callers = {} THEN 0
    ELSE LET c == CHOOSE x \in callers : TRUE
         IN  cast[id][c] + SumCast(id, callers \ {c})

SuccessfulVotes(id) == SumCast(id, Addrs)

(***************************************************************************)
(* C11: the stored ballots of an election are an append-only multiset:     *)
(* the number of stored ballots equals the number of successful vote,      *)
(* voteWithMerkle and voteEncrypted calls on it, byte-identical            *)
(* ciphertexts included.                                                   *)
(***************************************************************************)
C11_BallotCountEqualsVotes ==
    \A id \in ElectionIds : Len(encrypted_votes[id]) = SuccessfulVotes(id)

(***************************************************************************)
(* C12: once forceEndElection has succeeded on an election, no vote,       *)
(* voteWithMerkle or voteEncrypted call on it is admitted (the block time  *)
(* of the force end included) and, until the results are published, the    *)
(* organizer's publishResults is accepted.                                 *)
(***************************************************************************)
C12_ForceEndClosesImmediately ==
    \A id \in forced :
        /\ ~SomeVoteAdmitted(id)
        /\ ~info_of(id).is_finalized => publish_results_err(organizer, id) = OK

(***************************************************************************)
(* C13: every stored election record has start_time < end_time.            *)
(***************************************************************************)
C13_StartBeforeEnd ==
    \A id \in ElectionIds :
        exists_election(id) => info_of(id).start_time < info_of(id).end_time

(***************************************************************************)
(* C14: an election record is never deleted; its id, name, start_time,     *)
(* candidates and merkle_root never change; encryption_public_key changes  *)
(* only in a setEncryptionPublicKey step on it, end_time only in a         *)
(* forceEndElection step on it and is_finalized only in a publishResults   *)
(* step on it, each changing that one field; every other step (votes,      *)
(* addVoters, endElection, creation of another election) leaves the        *)
(* record as it is.                                                        *)
(***************************************************************************)
C14_RecordStep ==
    \A id \in ElectionIds :
        exists_election(id) =>
            LET old == info_of(id)
                new == election_info'[id][1]
            IN  /\ election_info'[id] # None
                /\ new.id = old.id
                /\ new.name = old.name
                /\ new.start_time = old.start_time
                /\ new.candidates = old.candidates
                /\ new.merkle_root = old.merkle_root
                /\ new.encryption_public_key # old.encryption_public_key =>
                       /\ \E c \in Addrs, k \in Keys : set_encryption_public_key(c, id, k)
                       /\ new = [old EXCEPT !.encryption_public_key = new.encryption_public_key]
                /\ new.end_time # old.end_time =>
                       /\ \E c \in Addrs : force_end_election(c, id)
                       /\ new = [old EXCEPT !.end_time = new.end_time]
                /\ new.is_finalized # old.is_finalized =>
                       /\ \E c \in Addrs, pairs \in PairLists : publish_results(c, id, pairs)
                       /\ new = [old EXCEPT !.is_finalized = TRUE]
                /\ (\/ last_election_id' # last_election_id
                    \/ encrypted_votes' # encrypted_votes
                    \/ eligible_voters' # eligible_voters
                    \/ \E c \in Addrs, other \in IdInputs : end_election(c, other))
                       => new = old

\* C14: a stored election record is never deleted and changes only through
\* setEncryptionPublicKey (key), forceEndElection (end_time) and publishResults
\* (is_finalized).
C14_RecordFrame == [][C14_RecordStep]_vars

C14_Witness ==
    /\ last_election_id = 2
    /\ info_of(1).merkle_root # None
    /\ info_of(1).encryption_public_key # None
    /\ 1 \in forced
    /\ info_of(1).is_finalized
    /\ Len(encrypted_votes[1]) > 0
    /\ Len(eligible_voters[1]) > 0
    /\ info_of(2).merkle_root = None

(***************************************************************************)
(* C15: election ids are sequential and never reused.  Records exist for   *)
(* exactly the ids 1..last_election_id, each holding its own id; a         *)
(* successful creation through either endpoint stores the record under     *)
(* last_election_id + 1, which had no record, and makes it the new         *)
(* last_election_id; last_election_id changes in no other step, so a       *)
(* rejected creation consumes no id.                                       *)
(***************************************************************************)
C15_IdsDense ==
    /\ \A id \in ElectionIds :
           /\ exists_election(id) <=> id <= last_election_id
           /\ exists_election(id) => info_of(id).id = id
    /\ Len(get_all_elections) = last_election_id
    /\ \A k \in 1..last_election_id : get_all_elections[k].id = k

AnyCreation ==
    \/ \E c \in Addrs, n \in Names, s \in Times, e \in Times, cands \in CandidateLists,
          key \in {None} \cup {Some(k) : k \in Keys} :
           /\ create_election_err(c, n, s, e) = OK
           /\ create_election(c, n, s, e, key, cands)
    \/ \E c \in Addrs, n \in Names, s \in Times, e \in Times, cands \in CandidateLists,
          root \in RootInputs :
           /\ create_election_with_merkle_err(c, n, s, e, root) = OK
           /\ create_election_with_merkle(c, n, s, e, root, cands)

C15_CreationAllocates ==
    /\ last_election_id' # last_election_id =>
           /\ AnyCreation
           /\ last_election_id' = last_election_id + 1
           /\ is_empty(last_election_id')
           /\ election_info'[last_election_id'] # None
           /\ election_info'[last_election_id'][1].id = last_election_id'
    /\ last_election_id' = last_election_id =>
           \A id \in ElectionIds : is_empty(id) => election_info'[id] = None

\* C15: ids are allocated 1, 2, 3, ... by the successful creations of either
\* endpoint; records exist for exactly 1..last_election_id.
C15_SequentialIds == []C15_IdsDense /\ [][C15_CreationAllocates]_vars

C15_Witness ==
    /\ last_election_id = 2
    /\ info_of(1).merkle_root = None
    /\ info_of(2).merkle_root # None
    /\ get_all_elections[2].id = 2
    /\ create_election_err("v1", "E", 1, 2) = E_ORGANIZER

(***************************************************************************)
(* C16: finalized is terminal.  Every state-changing call addressed to an  *)
(* election with is_finalized = TRUE fails, and its record, eligible       *)
(* voters, has-voted set, nullifiers, nonces, ballots and final tally are  *)
(* the same in every later state.                                          *)
(***************************************************************************)
is_published(id) == exists_election(id) /\ info_of(id).is_finalized

C16_FinalizedRejectsAll ==
    \A id \in ElectionIds :
        is_published(id) =>
            /\ ~SomeVoteAdmitted(id)
            /\ \A c \in Addrs :
                   /\ add_voters_err(c, id) # OK
                   /\ set_encryption_public_key_err(c, id) # OK
                   /\ end_election_err(c, id) # OK
                   /\ force_end_election_err(c, id) # OK
                   /\ publish_results_err(c, id) # OK

C16_FinalizedStep ==
    \A id \in ElectionIds :
        is_published(id) =>
            /\ election_info'[id] = election_info[id]
            /\ eligible_voters'[id] = eligible_voters[id]
            /\ has_voted'[id] = has_voted[id]
            /\ used_nullifiers'[id] = used_nullifiers[id]
            /\ used_nonces'[id] = used_nonces[id]
            /\ encrypted_votes'[id] = encrypted_votes[id]
            /\ final_candidates'[id] = final_candidates[id]
            /\ final_counts'[id] = final_counts[id]

\* C16: every state-changing call on a finalized election fails and all the
\* election's data stay as they are.
C16_FinalizedTerminal == []C16_FinalizedRejectsAll /\ [][C16_FinalizedStep]_vars

C16_Witness ==
    \E id \in ElectionIds :
        /\ is_published(id)
        /\ now > info_of(id).end_time + 1
        /\ Len(eligible_voters[id]) > 0
        /\ Len(encrypted_votes[id]) > 0
        /\ info_of(id).encryption_public_key # None

(***************************************************************************)
(* C17: endElection is a pure observer.  It is accepted only from the      *)
(* organizer, on an existing election that is not finalized, at            *)
(* now > end_time; a step of it changes nothing: is_finalized, the final   *)
(* tally and getElectionResults are as before.                             *)
(***************************************************************************)
C17_EndElectionGuard ==
    \A c \in Addrs, id \in IdInputs :
        end_election_err(c, id) = OK =>
            /\ c = organizer
            /\ id \in ElectionIds
            /\ exists_election(id)
            /\ ~info_of(id).is_finalized
            /\ now > info_of(id).end_time

C17_EndElectionStep ==
    \A c \in Addrs, id \in IdInputs :
        end_election(c, id) =>
            /\ UNCHANGED <<storage, now>>
            /\ election_info'[id] = election_info[id]
            /\ final_candidates'[id] = final_candidates[id]
            /\ final_counts'[id] = final_counts[id]
            /\ get_election_results(id)' = get_election_results(id)

\* C17: endElection succeeds only for the organizer on an existing, not finalized
\* election after end_time, and it changes no state.
C17_EndElectionObserver == []C17_EndElectionGuard /\ [][C17_EndElectionStep]_vars

C17_Witness ==
    \E id \in ElectionIds :
        /\ end_election_err(organizer, id) = OK
        /\ end_election_err("v1", id) = E_ORGANIZER
        /\ Len(encrypted_votes[id]) > 0
        /\ get_election_results(id) = <<<<"A", 0>>, <<"B", 0>>>>

(***************************************************************************)
(* C18: addVoters by the organizer fails with the already-finalized error  *)
(* on every election that is closed (now > end_time), published or not,    *)
(* and with the not-found error on an election that does not exist.        *)
(***************************************************************************)
C18_AddVotersClosedFails ==
    \A id \in IdInputs :
        /\ (id \notin ElectionIds \/ is_empty(id)) => add_voters_err(organizer, id) = E_NO_ELECTION
        /\ (id \in ElectionIds /\ exists_election(id) /\ now > info_of(id).end_time) =>
               add_voters_err(organizer, id) = E_ENDED

(***************************************************************************)
(* C19: once forceEndElection has succeeded on an election, every later    *)
(* forceEndElection by the organizer on it (while it is not finalized)     *)
(* fails with 'Election already ended'.                                    *)
(***************************************************************************)
C19_RedundantForceEndRejected ==
    \A id \in forced :
        ~info_of(id).is_finalized => force_end_election_err(organizer, id) = E_ALREADY_ENDED

(***************************************************************************)
(* C20: the callers recorded as having voted are eligible voters; neither  *)
(* set loses a member; the vote endpoints never change the eligible        *)
(* voters; a successful vote call appends exactly its caller, who was not  *)
(* yet recorded, to the has-voted set.                                     *)
(***************************************************************************)
C20_VotedAreEligible ==
    \A id \in ElectionIds :
        RangeOf(has_voted[id]) \subseteq RangeOf(eligible_voters[id])

C20_VoterSetsStep ==
    \A id \in ElectionIds :
        /\ RangeOf(eligible_voters[id]) \subseteq RangeOf(eligible_voters'[id])
        /\ RangeOf(has_voted[id]) \subseteq RangeOf(has_voted'[id])
        /\ \A c \in Addrs, b \in Ballots :
               vote(c, id, b) =>
                   /\ eligible_voters' = eligible_voters
                   /\ ~SetContains(has_voted[id], c)
                   /\ has_voted'[id] = Append(has_voted[id], c)
        /\ has_voted'[id] # has_voted[id] =>
               /\ eligible_voters' = eligible_voters
               /\ \E c \in Addrs : has_voted'[id] = Append(has_voted[id], c)
        /\ encrypted_votes'[id] # encrypted_votes[id] => eligible_voters' = eligible_voters

\* C20: HasVoted is a subset of EligibleVoters, both only grow, voting leaves
\* EligibleVoters alone and each successful vote adds exactly the caller.
C20_VoterSets == []C20_VotedAreEligible /\ [][C20_VoterSetsStep]_vars

C20_Witness ==
    \E id \in ElectionIds :
        /\ has_voted[id] = <<"v1">>
        /\ eligible_voters[id] = <<"v1">>
        /\ Len(used_nonces[id]) > 0
        /\ Len(encrypted_votes[id]) = 2

(***************************************************************************)
(* C21: the lifecycle only moves forward.  The block time never decreases  *)
(* and no step increases an election's end_time; an election that is       *)
(* closed (now > end_time) is closed in every later state, admits no vote, *)
(* voteWithMerkle or voteEncrypted call, and its ballots never grow.       *)
(***************************************************************************)
is_closed(id) == exists_election(id) /\ now > info_of(id).end_time

C21_ClosedAdmitsNoVote ==
    \A id \in ElectionIds : is_closed(id) => ~SomeVoteAdmitted(id)

C21_ForwardStep ==
    /\ now' >= now
    /\ \A id \in ElectionIds :
           /\ exists_election(id) =>
                  /\ election_info'[id] # None
                  /\ election_info'[id][1].end_time <= info_of(id).end_time
           /\ is_closed(id) =>
                  /\ now' > election_info'[id][1].end_time
                  /\ encrypted_votes'[id] = encrypted_votes[id]
                  /\ cast'[id] = cast[id]

\* C21: end_time never increases, so a closed election stays closed: no later
\* vote on it succeeds and its ballots never grow.
C21_LifecycleForward == []C21_ClosedAdmitsNoVote /\ [][C21_ForwardStep]_vars

C21_Witness ==
    \E id \in ElectionIds :
        /\ id \in forced
        /\ is_closed(id)
        /\ now > info_of(id).end_time + 1
        /\ ~info_of(id).is_finalized
        /\ info_of(id).encryption_public_key # None
        /\ Len(encrypted_votes[id]) > 0
        /\ SetContains(eligible_voters[id], "v1")
        /\ ~SetContains(has_voted[id], "v1")
        /\ vote_err("v1", id) = E_ENDED

====
